---- MODULE Spec2Model ----
(***************************************************************************)
(* psd_tools/reader/layers.py: the reader of the "Layer and Mask           *)
(* Information" section, modelled as a cursor (pos) moving over a byte     *)
(* source (buf).  One action per group of statements between two calls;    *)
(* every fp.read / fp.seek that can move the cursor backwards is a step    *)
(* of its own.  The functions can be entered on their own (entry) or       *)
(* through read().                                                         *)
(***************************************************************************)
EXTENDS Integers, Sequences, FiniteSets, TLC

VARIABLES
    buf,    \* the bytes of fp (never written)
    pos,    \* fp.tell()
    pc,     \* the statement about to run
    stack,  \* return labels of the calls in progress
    err,    \* the exception that ended the parse, if any
    warns,  \* the warnings.warn() calls so far, in order
    ret,    \* the value the last returning function returned
    rd,     \* locals of read()
    ls,     \* locals of _read_layers()
    lr,     \* locals of _read_layer_record()
    tb,     \* locals of _read_layer_tagged_blocks() and of the block reader
    cd,     \* locals of _read_channel_image_data()
    mk,     \* locals of _read_layer_mask_data()
    gm,     \* locals of _read_global_mask_info()
    input   \* the test vector the source was built from (never written)

vars == <<buf, pos, pc, stack, err, warns, ret, rd, ls, lr, tb, cd, mk, gm, input>>

(***************************************************************************)
(* Bounds of the enumerated inputs.                                        *)
(***************************************************************************)
MaxBlocks == 2      \* tagged blocks in a stream
MaxChannels == 2    \* channels of a layer
MaxLayers == 2      \* layer records of a section

(***************************************************************************)
(* Python values.                                                          *)
(***************************************************************************)
None == <<>>
Some(x) == <<x>>

Min(a, b) == IF a < b THEN a ELSE b
Max(a, b) == IF a > b THEN a ELSE b
Abs(n) == IF n < 0 THEN -n ELSE n

RECURSIVE Sum(_)
Sum(s) == IF s = <<>> THEN 0 ELSE Head(s) + Sum(Tail(s))

RECURSIVE Concat(_)
Concat(ss) == IF ss = <<>> THEN <<>> ELSE Head(ss) \o Concat(Tail(ss))

(***************************************************************************)
(* The byte strings the code compares with.                                *)
(***************************************************************************)
SIG_8BIM == <<56, 66, 73, 77>>
SIG_8B64 == <<56, 66, 54, 52>>
BlockSignatures == {SIG_8BIM, SIG_8B64}
MaskSizes == {0, 20, 36}

(***************************************************************************)
(* psd_tools.constants: the codes the reader asks is_known() about.        *)
(***************************************************************************)
RAW == 0
PACK_BITS == 1
CompressionKnown == {0, 1, 2, 3}
ClippingKnown == {0, 1}
BLEND_norm == <<110, 111, 114, 109>>
BLEND_mul == <<109, 117, 108, 32>>
BlendModeKnown == {BLEND_norm, BLEND_mul}

(***************************************************************************)
(* The file object.  read(n) returns at most n bytes, all the rest for a   *)
(* negative n, and advances by what it returned; a relative seek may pass  *)
(* the end of the source.  A seek to before the start stops at 0 on an     *)
(* in-memory source and fails on an operating-system file.                 *)
(***************************************************************************)
FpRead(p, n) ==
    IF p >= Len(buf) THEN <<>>
    ELSE IF n < 0 THEN SubSeq(buf, p + 1, Len(buf))
    ELSE SubSeq(buf, p + 1, Min(p + n, Len(buf)))

FpSeek(p, offset) == IF p + offset < 0 THEN 0 ELSE p + offset

(***************************************************************************)
(* psd_tools.utils.read_fmt: big-endian struct.unpack of exactly           *)
(* calcsize(fmt) bytes; fewer bytes are an error.                          *)
(***************************************************************************)
CanRead(p, n) == p + n <= Len(buf)
ShortPos(p) == Max(p, Len(buf))

U8At(p) == buf[p + 1]
U16At(p) == buf[p + 1] * 256 + buf[p + 2]
I16At(p) == IF buf[p + 1] >= 128 THEN U16At(p) - 65536 ELSE U16At(p)
U32At(p) == buf[p + 1] * 16777216 + buf[p + 2] * 65536 + buf[p + 3] * 256 + buf[p + 4]
I32At(p) ==
    (IF buf[p + 1] >= 128 THEN buf[p + 1] - 256 ELSE buf[p + 1]) * 16777216
        + buf[p + 2] * 65536 + buf[p + 3] * 256 + buf[p + 4]

(***************************************************************************)
(* bytes.decode('ascii'): the code points of the bytes, when all are       *)
(* below 128.                                                              *)
(***************************************************************************)
AsciiDecodable(bytes) == \A i \in 1..Len(bytes) : bytes[i] < 128
DecodeAscii(bytes) == [i \in 1..Len(bytes) |-> bytes[i] % 128]

(***************************************************************************)
(* The names bound at module level (imports and definitions, lines 7-42).  *)
(***************************************************************************)
ModuleNames ==
    {"read_fmt", "read_pascal_string", "read_be_array", "Error", "Compression",
     "Clipping", "BlendMode", "logger", "_LayerRecord", "LayerRecord", "Layers",
     "LayerAndMaskInfo", "ChannelInfo", "MaskData", "LayerBlendingRanges",
     "ChannelData", "GlobalMaskInfo"}

(***************************************************************************)
(* Locals of each function before it has run.                              *)
(***************************************************************************)
NoError == [kind |-> "", arg |-> <<>>]

ReadLocals ==
    [length |-> 0, start_position |-> 0, layers |-> None, global_mask_info |-> None,
     tagged_blocks |-> <<>>, consumed_bytes |-> 0]

LayersLocals ==
    [length |-> 0, layer_count |-> 0, layer_records |-> <<>>, channel_image_data |-> <<>>]

RecordLocals ==
    [top |-> 0, left |-> 0, bottom |-> 0, right |-> 0, num_channels |-> 0,
     channel_info |-> <<>>, sig |-> None, blend_mode |-> None, opacity |-> 0,
     clipping |-> 0, flags |-> 0, extra_length |-> 0, start |-> 0, mask_data |-> None,
     blending_ranges |-> None, name |-> <<>>, remaining_length |-> 0,
     tagged_blocks |-> <<>>]

ScanLocals(remaining_length, start_pos) ==
    [remaining_length |-> remaining_length, blocks |-> <<>>, start_pos |-> start_pos,
     read_bytes |-> 0, sig |-> None]

ChannelLocals(layer) ==
    [layer |-> layer, w |-> 0, h |-> 0, channel_data |-> <<>>, i |-> 0,
     start_pos |-> 0, remaining_bytes |-> 0]

MaskLocals == [size |-> 0]

GlobalMaskLocals == [start_pos |-> 0, length |-> 0, filler_length |-> 0]

(***************************************************************************)
(* Control: the next statement, a call, a return, a raise.                 *)
(***************************************************************************)
Goto(label) == pc' = label /\ UNCHANGED <<stack, err, ret>>

Call(label, back) == pc' = label /\ stack' = <<back>> \o stack /\ UNCHANGED <<err, ret>>

Return(value) ==
    /\ ret' = value
    /\ pc' = IF stack = <<>> THEN "done" ELSE Head(stack)
    /\ stack' = IF stack = <<>> THEN stack ELSE Tail(stack)
    /\ UNCHANGED err

Raise(kind, arg) ==
    /\ pc' = "raised"
    /\ err' = [kind |-> kind, arg |-> arg]
    /\ UNCHANGED <<stack, ret>>

Warn(msg, arg) == warns' = Append(warns, [msg |-> msg, arg |-> arg])

(***************************************************************************)
(* _read_layer_tagged_blocks and _read_additional_layer_info_block.        *)
(***************************************************************************)
\* lines 136-137 and 148: the budget is not used up; peek at 4 bytes
read_additional_layer_info_block_peek ==
    /\ pc = "scan"
    /\ tb.read_bytes < tb.remaining_length
    /\ tb' = [tb EXCEPT !.sig = Some(FpRead(pos, 4))]
    /\ pos' = pos + Len(FpRead(pos, 4))
    /\ Goto("scan_sig")
    /\ UNCHANGED <<buf, warns, rd, ls, lr, cd, mk, gm, input>>

\* lines 136 and 142: the budget is used up
read_layer_tagged_blocks_return ==
    /\ pc = "scan"
    /\ ~(tb.read_bytes < tb.remaining_length)
    /\ Return(tb.blocks)
    /\ UNCHANGED <<buf, pos, warns, rd, ls, lr, tb, cd, mk, gm, input>>

\* lines 149-151, 138-139, 142: no signature; go back 4 bytes and stop
read_additional_layer_info_block_unpeek ==
    /\ pc = "scan_sig"
    /\ tb.sig[1] \notin BlockSignatures
    /\ pos' = FpSeek(pos, -4)
    /\ Return(tb.blocks)
    /\ UNCHANGED <<buf, warns, rd, ls, lr, tb, cd, mk, gm, input>>

\* line 150 on an operating-system file: a seek to before the start fails
read_additional_layer_info_block_unpeek_fails ==
    /\ pc = "scan_sig"
    /\ tb.sig[1] \notin BlockSignatures
    /\ pos - 4 < 0
    /\ Raise("IOError", <<>>)
    /\ UNCHANGED <<buf, pos, warns, rd, ls, lr, tb, cd, mk, gm, input>>

\* line 155 as a function padding the payload to an even length would read it
BlockDataPadded(p, length) == FpRead(p, length + (length % 2))

\* line 155: data = fp.read(length)
BlockData(p, length) == FpRead(p, length)

\* lines 153-156, 140-141: key, length, payload of one block
read_additional_layer_info_block ==
    /\ pc = "scan_sig"
    /\ tb.sig[1] \in BlockSignatures
    /\ IF ~CanRead(pos, 8)
       THEN /\ pos' = ShortPos(pos)
            /\ Raise("struct.error", <<>>)
            /\ UNCHANGED tb
       ELSE LET key == FpRead(pos, 4)
                length == U32At(pos + 4)
                data == BlockData(pos + 8, length)
                end == pos + 8 + Len(data)
            IN  /\ pos' = end
                /\ tb' = [tb EXCEPT !.blocks = Append(@, [key |-> key, data |-> data]),
                                    !.read_bytes = end - tb.start_pos]
                /\ Goto("scan")
    /\ UNCHANGED <<buf, warns, rd, ls, lr, cd, mk, gm, input>>

(***************************************************************************)
(* _read_layer_mask_data, lines 158-177.                                   *)
(***************************************************************************)
read_layer_mask_data ==
    /\ pc = "mask"
    /\ IF ~CanRead(pos, 4)
       THEN /\ pos' = ShortPos(pos)
            /\ Raise("struct.error", <<>>)
            /\ UNCHANGED <<mk, warns>>
       ELSE LET size == U32At(pos) IN
            /\ mk' = [size |-> size]
            /\ IF size \notin MaskSizes
               THEN /\ Warn("Invalid layer data size", size)
                    /\ pos' = FpSeek(pos + 4, size)
                    /\ Return(None)
               ELSE IF size = 0
               THEN /\ pos' = pos + 4
                    /\ Return(None)
                    /\ UNCHANGED warns
               ELSE IF ~CanRead(pos + 4, 18) \/ (size /= 20 /\ ~CanRead(pos + 22, 2))
               THEN /\ pos' = ShortPos(pos)
                    /\ Raise("struct.error", <<>>)
                    /\ UNCHANGED warns
               ELSE LET real == IF size = 20 THEN <<None, None>>
                                ELSE <<Some(U8At(pos + 22)), Some(U8At(pos + 23))>>
                    IN  /\ pos' = IF size = 20 THEN FpSeek(pos + 22, 2)
                                  ELSE FpSeek(pos + 24, 16)
                        /\ UNCHANGED warns
                        /\ IF "LayerMaskData" \in ModuleNames
                           THEN Return(Some(
                                    [top |-> I32At(pos + 4), left |-> I32At(pos + 8),
                                     bottom |-> I32At(pos + 12), right |-> I32At(pos + 16),
                                     default_color |-> U8At(pos + 20),
                                     flags |-> U8At(pos + 21),
                                     real_flags |-> real[1],
                                     real_background |-> real[2]]))
                           ELSE Raise("NameError", <<>>)
    /\ UNCHANGED <<buf, rd, ls, lr, tb, cd, gm, input>>

(***************************************************************************)
(* _read_global_mask_info, lines 235-241.                                  *)
(***************************************************************************)
read_global_mask_info ==
    /\ pc = "gmi"
    /\ IF ~CanRead(pos, 17)
       THEN /\ pos' = ShortPos(pos)
            /\ Raise("struct.error", <<>>)
            /\ UNCHANGED gm
       ELSE LET length == U32At(pos)
                filler_length == length - ((pos + 17) - pos)
            IN  /\ gm' = [start_pos |-> pos, length |-> length,
                          filler_length |-> filler_length]
                /\ pos' = IF filler_length > 0 THEN FpSeek(pos + 17, filler_length)
                          ELSE pos + 17
                /\ Return([overlay |-> U16At(pos + 4),
                           color_components |-> <<U16At(pos + 6), U16At(pos + 8),
                                                  U16At(pos + 10), U16At(pos + 12)>>,
                           opacity |-> U16At(pos + 14),
                           kind |-> U8At(pos + 16)])
    /\ UNCHANGED <<buf, warns, rd, ls, lr, tb, cd, mk, input>>

(***************************************************************************)
(* psd_tools.utils.read_be_array("H", count, fp): count big-endian u16.    *)
(***************************************************************************)
read_be_array(p, count) == [k \in 1..count |-> U16At(p + 2 * (k - 1))]

(***************************************************************************)
(* _read_channel_image_data.                                               *)
(***************************************************************************)
\* lines 201-203
read_channel_image_data_begin ==
    /\ pc = "chan"
    /\ cd' = [cd EXCEPT !.w = cd.layer.right - cd.layer.left,
                        !.h = cd.layer.bottom - cd.layer.top,
                        !.channel_data = <<>>,
                        !.i = 0]
    /\ Goto("chan_loop")
    /\ UNCHANGED <<buf, pos, warns, rd, ls, lr, tb, mk, gm, input>>

\* what one pass of the loop reads after the compression tag at p - 2:
\* <<entries appended, cursor after the payload, warning or None>>
ChannelPayload(compression, p, w, h) ==
    IF compression = RAW
    THEN LET data == FpRead(p, w * h)
         IN  <<(<<[compression |-> compression, data |-> data]>>), p + Len(data), None>>
    ELSE IF compression = PACK_BITS
    THEN LET byte_counts == read_be_array(p, h)
             data == FpRead(p + 2 * h, Sum(byte_counts))
         IN  <<(<<[compression |-> compression, data |-> data]>>),
               p + 2 * h + Len(data), None>>
    ELSE IF compression \in CompressionKnown
    THEN <<(<<>>), p, Some("This compression type is not yet supported")>>
    ELSE <<(<<>>), p, Some("Unknown compression type")>>

\* lines 205-225: one channel
read_channel ==
    /\ pc = "chan_loop"
    /\ cd.i < Len(cd.layer.channels)
    /\ IF ~CanRead(pos, 2)
          \/ (U16At(pos) = PACK_BITS /\ ~CanRead(pos + 2, 2 * cd.h))
       THEN /\ pos' = ShortPos(pos)
            /\ Raise("struct.error", <<>>)
            /\ UNCHANGED <<cd, warns>>
       ELSE LET channel == cd.layer.channels[cd.i + 1]
                start_pos == pos
                compression == U16At(pos)
                got == ChannelPayload(compression, pos + 2, cd.w, cd.h)
                remaining_bytes == channel.length - (got[2] - start_pos) - 2
            IN  /\ pos' = IF remaining_bytes > 0 THEN FpSeek(got[2], remaining_bytes)
                          ELSE got[2]
                /\ warns' = IF got[3] = None THEN warns
                            ELSE Append(warns, [msg |-> got[3][1], arg |-> compression])
                /\ cd' = [cd EXCEPT !.channel_data = @ \o got[1],
                                    !.i = @ + 1,
                                    !.start_pos = start_pos,
                                    !.remaining_bytes = remaining_bytes]
                /\ Goto("chan_loop")
    /\ UNCHANGED <<buf, rd, ls, lr, tb, mk, gm, input>>

\* lines 205 and 227
read_channel_image_data_return ==
    /\ pc = "chan_loop"
    /\ ~(cd.i < Len(cd.layer.channels))
    /\ Return(cd.channel_data)
    /\ UNCHANGED <<buf, pos, warns, rd, ls, lr, tb, cd, mk, gm, input>>

(***************************************************************************)
(* _read_layer_record.                                                     *)
(***************************************************************************)
\* lines 89-95: box, channel count, channel infos
read_layer_record_header ==
    /\ pc = "rec"
    /\ IF ~CanRead(pos, 18) \/ ~CanRead(pos, 18 + 6 * U16At(pos + 16))
       THEN /\ pos' = ShortPos(pos)
            /\ Raise("struct.error", <<>>)
            /\ UNCHANGED lr
       ELSE LET num_channels == U16At(pos + 16) IN
            /\ lr' = [RecordLocals EXCEPT
                        !.top = I32At(pos), !.left = I32At(pos + 4),
                        !.bottom = I32At(pos + 8), !.right = I32At(pos + 12),
                        !.num_channels = num_channels,
                        !.channel_info =
                            [k \in 1..num_channels |->
                                [id |-> I16At(pos + 18 + 6 * (k - 1)),
                                 length |-> U32At(pos + 20 + 6 * (k - 1))]]]
            /\ pos' = pos + 18 + 6 * num_channels
            /\ Goto("rec_sig")
    /\ UNCHANGED <<buf, warns, rd, ls, tb, cd, mk, gm, input>>

\* line 98 as a check against the tagged blocks' signatures would decide
RecordSignatureValidAny(sig) == sig \in BlockSignatures

\* line 98: sig != b'8BIM'
RecordSignatureValid(sig) == sig = SIG_8BIM

\* lines 97-99: the magic
read_layer_record_signature ==
    /\ pc = "rec_sig"
    /\ LET sig == FpRead(pos, 4) IN
       /\ pos' = pos + Len(sig)
       /\ lr' = [lr EXCEPT !.sig = Some(sig)]
       /\ IF ~RecordSignatureValid(sig) THEN Raise("Error", sig) ELSE Goto("rec_blend")
    /\ UNCHANGED <<buf, warns, rd, ls, tb, cd, mk, gm, input>>

\* lines 101-103: the blend mode key
read_layer_record_blend_mode ==
    /\ pc = "rec_blend"
    /\ LET key == FpRead(pos, 4) IN
       /\ pos' = pos + Len(key)
       /\ IF ~AsciiDecodable(key)
          THEN /\ Raise("UnicodeDecodeError", key)
               /\ UNCHANGED <<lr, warns>>
          ELSE /\ lr' = [lr EXCEPT !.blend_mode = Some(DecodeAscii(key))]
               /\ IF DecodeAscii(key) \notin BlendModeKnown
                  THEN Warn("Unknown blend mode", DecodeAscii(key))
                  ELSE UNCHANGED warns
               /\ Goto("rec_flags")
    /\ UNCHANGED <<buf, rd, ls, tb, cd, mk, gm, input>>

\* lines 105-111: opacity, clipping, flags, pad, extra length; then the mask
read_layer_record_flags ==
    /\ pc = "rec_flags"
    /\ IF ~CanRead(pos, 8)
       THEN /\ pos' = ShortPos(pos)
            /\ Raise("struct.error", <<>>)
            /\ UNCHANGED <<lr, warns>>
       ELSE /\ lr' = [lr EXCEPT !.opacity = U8At(pos), !.clipping = U8At(pos + 1),
                                !.flags = U8At(pos + 2),
                                !.extra_length = U32At(pos + 4),
                                !.start = pos + 8]
            /\ IF U8At(pos + 1) \notin ClippingKnown
               THEN Warn("Unknown clipping", U8At(pos + 1))
               ELSE UNCHANGED warns
            /\ pos' = pos + 8
            /\ Call("mask", "rec_blending")
    /\ UNCHANGED <<buf, rd, ls, tb, cd, mk, gm, input>>

\* _read_layer_blending_ranges, lines 179-195, from position p:
\* <<composite_ranges, channel_ranges, cursor after>>
ChannelRangeAt(p) == <<(<<U16At(p), U16At(p + 2)>>), (<<U16At(p + 4), U16At(p + 6)>>)>>

BlendingRangesCount(length) == IF length = 0 THEN 0 ELSE 1 + Max(0, (length \div 8) - 1)

read_layer_blending_ranges(p) ==
    LET length == U32At(p)
        n == BlendingRangesCount(length)
    IN  [composite_ranges |-> IF length = 0 THEN None ELSE Some(ChannelRangeAt(p + 4)),
         channel_ranges |-> [k \in 1..(n - 1) |-> ChannelRangeAt(p + 4 + 8 * k)]]

\* line 111 (the mask returned) and line 112
read_layer_record_blending_ranges ==
    /\ pc = "rec_blending"
    /\ IF ~CanRead(pos, 4) \/ ~CanRead(pos + 4, 8 * BlendingRangesCount(U32At(pos)))
       THEN /\ pos' = ShortPos(pos)
            /\ Raise("struct.error", <<>>)
            /\ lr' = [lr EXCEPT !.mask_data = ret]
       ELSE /\ lr' = [lr EXCEPT !.mask_data = ret,
                                !.blending_ranges = Some(read_layer_blending_ranges(pos))]
            /\ pos' = pos + 4 + 8 * BlendingRangesCount(U32At(pos))
            /\ Goto("rec_name")
    /\ UNCHANGED <<buf, warns, rd, ls, tb, cd, mk, gm, input>>

\* lines 113-116: the name (a 1-byte length, then the bytes), then the blocks
read_layer_record_name ==
    /\ pc = "rec_name"
    /\ IF ~CanRead(pos, 1)
       THEN /\ pos' = ShortPos(pos)
            /\ Raise("struct.error", <<>>)
            /\ UNCHANGED <<lr, tb>>
       ELSE LET name == FpRead(pos + 1, U8At(pos))
                end == pos + 1 + Len(name)
                remaining_length == lr.extra_length - (end - lr.start)
            IN  /\ pos' = end
                /\ lr' = [lr EXCEPT !.name = name, !.remaining_length = remaining_length]
                /\ tb' = ScanLocals(remaining_length, end)
                /\ Call("scan", "rec_skip")
    /\ UNCHANGED <<buf, warns, rd, ls, cd, mk, gm, input>>

\* line 119 as a seek that never goes backwards would move the cursor
RecordFinalSeekClamped(p, remaining_length) ==
    IF remaining_length > 0 THEN FpSeek(p, remaining_length) ELSE p

\* line 119: fp.seek(remaining_length, 1)
RecordFinalSeek(p, remaining_length) == FpSeek(p, remaining_length)

\* line 116 (the blocks returned) and lines 118-127: skip the remainder
read_layer_record_skip ==
    /\ pc = "rec_skip"
    /\ LET remaining_length == lr.extra_length - (pos - lr.start)
           done == [lr EXCEPT !.tagged_blocks = ret,
                              !.remaining_length = remaining_length]
       IN  /\ pos' = RecordFinalSeek(pos, remaining_length)
           /\ lr' = done
           /\ Return([top |-> done.top, left |-> done.left, bottom |-> done.bottom,
                      right |-> done.right, num_channels |-> done.num_channels,
                      channels |-> done.channel_info, blend_mode |-> done.blend_mode[1],
                      opacity |-> done.opacity, cilpping |-> done.clipping,
                      flags |-> done.flags, mask_data |-> done.mask_data,
                      blending_ranges |-> done.blending_ranges[1], name |-> done.name,
                      tagged_blocks |-> done.tagged_blocks])
    /\ UNCHANGED <<buf, warns, rd, ls, tb, cd, mk, gm, input>>

(***************************************************************************)
(* _read_layers.                                                           *)
(***************************************************************************)
\* lines 69-72
read_layers_begin ==
    /\ pc = "layers"
    /\ IF ~CanRead(pos, 6)
       THEN /\ pos' = ShortPos(pos)
            /\ Raise("struct.error", <<>>)
            /\ UNCHANGED ls
       ELSE /\ ls' = [LayersLocals EXCEPT !.length = U32At(pos),
                                          !.layer_count = I16At(pos + 4)]
            /\ pos' = pos + 6
            /\ Goto("layers_rec")
    /\ UNCHANGED <<buf, warns, rd, lr, tb, cd, mk, gm, input>>

\* lines 73-74
read_layers_next_record ==
    /\ pc = "layers_rec"
    /\ Len(ls.layer_records) < Abs(ls.layer_count)
    /\ Call("rec", "layers_rec_ret")
    /\ UNCHANGED <<buf, pos, warns, rd, ls, lr, tb, cd, mk, gm, input>>

\* line 75
read_layers_append_record ==
    /\ pc = "layers_rec_ret"
    /\ ls' = [ls EXCEPT !.layer_records = Append(@, ret)]
    /\ Goto("layers_rec")
    /\ UNCHANGED <<buf, pos, warns, rd, lr, tb, cd, mk, gm, input>>

\* lines 73 and 77
read_layers_records_done ==
    /\ pc = "layers_rec"
    /\ ~(Len(ls.layer_records) < Abs(ls.layer_count))
    /\ Goto("layers_chan")
    /\ UNCHANGED <<buf, pos, warns, rd, ls, lr, tb, cd, mk, gm, input>>

\* lines 78-80
read_layers_next_channel_data ==
    /\ pc = "layers_chan"
    /\ Len(ls.channel_image_data) < Len(ls.layer_records)
    /\ cd' = ChannelLocals(ls.layer_records[Len(ls.channel_image_data) + 1])
    /\ Call("chan", "layers_chan_ret")
    /\ UNCHANGED <<buf, pos, warns, rd, ls, lr, tb, mk, gm, input>>

\* line 81
read_layers_append_channel_data ==
    /\ pc = "layers_chan_ret"
    /\ ls' = [ls EXCEPT !.channel_image_data = Append(@, ret)]
    /\ Goto("layers_chan")
    /\ UNCHANGED <<buf, pos, warns, rd, lr, tb, cd, mk, gm, input>>

\* lines 78 and 83
read_layers_return ==
    /\ pc = "layers_chan"
    /\ ~(Len(ls.channel_image_data) < Len(ls.layer_records))
    /\ Return([length |-> ls.length, layer_count |-> ls.layer_count,
               layer_records |-> ls.layer_records,
               channel_image_data |-> ls.channel_image_data])
    /\ UNCHANGED <<buf, pos, warns, rd, ls, lr, tb, cd, mk, gm, input>>

(***************************************************************************)
(* read.                                                                   *)
(***************************************************************************)
\* lines 48-51
read_begin ==
    /\ pc = "read"
    /\ IF ~CanRead(pos, 4)
       THEN /\ pos' = ShortPos(pos)
            /\ Raise("struct.error", <<>>)
            /\ UNCHANGED rd
       ELSE /\ rd' = [ReadLocals EXCEPT !.length = U32At(pos),
                                        !.start_position = pos + 4]
            /\ pos' = pos + 4
            /\ Call("layers", "read_gmi")
    /\ UNCHANGED <<buf, warns, ls, lr, tb, cd, mk, gm, input>>

\* line 51 (the layers returned) and line 55
read_call_global_mask_info ==
    /\ pc = "read_gmi"
    /\ rd' = [rd EXCEPT !.layers = Some(ret)]
    /\ Call("gmi", "read_tagged")
    /\ UNCHANGED <<buf, pos, warns, ls, lr, tb, cd, mk, gm, input>>

\* line 55 (the global mask info returned) and lines 57-58
read_call_tagged_blocks ==
    /\ pc = "read_tagged"
    /\ LET consumed_bytes == pos - rd.start_position IN
       /\ rd' = [rd EXCEPT !.global_mask_info = Some(ret),
                           !.consumed_bytes = consumed_bytes]
       /\ tb' = ScanLocals(rd.length - consumed_bytes, pos)
    /\ Call("scan", "read_skip")
    /\ UNCHANGED <<buf, pos, warns, ls, lr, cd, mk, gm, input>>

\* line 61 as a seek that never goes backwards would move the cursor
ReadFinalSeekClamped(p, length, consumed_bytes) ==
    IF length - consumed_bytes > 0 THEN FpSeek(p, length - consumed_bytes) ELSE p

\* line 61: fp.seek(length-consumed_bytes, 1)
ReadFinalSeek(p, length, consumed_bytes) == FpSeek(p, length - consumed_bytes)

\* line 58 (the blocks returned) and lines 60-63: seek to the declared end
read_skip ==
    /\ pc = "read_skip"
    /\ LET consumed_bytes == pos - rd.start_position IN
       /\ rd' = [rd EXCEPT !.tagged_blocks = ret, !.consumed_bytes = consumed_bytes]
       /\ pos' = ReadFinalSeek(pos, rd.length, consumed_bytes)
       /\ Return([layers |-> rd.layers[1], global_mask_info |-> rd.global_mask_info[1],
                  tagged_blocks |-> ret])
    /\ UNCHANGED <<buf, warns, ls, lr, tb, cd, mk, gm, input>>

(***************************************************************************)
(* The inputs: byte sources laid out as the reader expects them (the       *)
(* inverse of the reads above), from small sets of field values.           *)
(***************************************************************************)
U8(n) == <<n % 256>>
U16(n) == <<(n \div 256) % 256, n % 256>>
I16(n) == IF n < 0 THEN U16(n + 65536) ELSE U16(n)
U32(n) == <<(n \div 16777216) % 256, (n \div 65536) % 256, (n \div 256) % 256, n % 256>>
I32(n) ==
    IF n >= 0 THEN U32(n)
    ELSE LET m == (n + 2147483647) + 1
         IN  <<128 + (m \div 16777216), (m \div 65536) % 256, (m \div 256) % 256, m % 256>>

Fill(n) == [i \in 1..n |-> i % 251]

KEY_lyid == <<108, 121, 105, 100>>
KEY_luni == <<108, 117, 110, 105>>
SIG_MIB8 == <<77, 73, 66, 56>>
BLEND_zzzz == <<122, 122, 122, 122>>
BLEND_high == <<255, 0, 0, 1>>

BlockKinds ==
    {[sig |-> SIG_8BIM, key |-> KEY_lyid, length |-> 4],
     [sig |-> SIG_8BIM, key |-> KEY_luni, length |-> 10],
     [sig |-> SIG_8B64, key |-> KEY_lyid, length |-> 0],
     [sig |-> SIG_8B64, key |-> KEY_luni, length |-> 1]}

BlockBytes(b) == b.sig \o b.key \o U32(b.length) \o Fill(b.length)

StreamBytes(blocks) == Concat([i \in 1..Len(blocks) |-> BlockBytes(blocks[i])])

SeqsUpTo(S, n) == UNION {[1..k -> S] : k \in 0..n}

\* what may follow a stream of blocks: nothing, fewer than 4 bytes, bytes that are
\* no signature, a signature and the end, a block whose payload is cut
StreamTails ==
    {<<>>, <<56>>, <<56, 66, 73>>, <<0, 0, 0, 0, 0>>, SIG_8BIM \o <<108>>,
     SIG_8BIM \o KEY_lyid \o U32(5) \o <<1, 2>>}

ScanVectors ==
    {[entry |-> "scan", start |-> st, blocks |-> bs, tail |-> tl, budget |-> bg] :
        st \in {0, 6}, bs \in SeqsUpTo(BlockKinds, MaxBlocks), tl \in StreamTails,
        bg \in {-1, 0, 1, 16, 17, 38, 39}}

MaskBytes(size) == U32(size) \o Fill(size)

MaskVectors ==
    {[entry |-> "mask", start |-> st, size |-> sz, cut |-> ct] :
        st \in {0, 6}, sz \in {0, 5, 19, 20, 21, 36, 40}, ct \in {0, 1}}

GlobalMaskBytes(length) == U32(length) \o Fill(13) \o Fill(Max(0, length - 13))

GlobalMaskVectors ==
    {[entry |-> "gmi", start |-> st, length |-> ln, cut |-> ct] :
        st \in {0, 6}, ln \in {0, 12, 13, 14, 17, 18, 20}, ct \in {0, 1}}

\* a channel: its compression code, and how many bytes its declared length
\* counts beyond the tag and the payload
ChannelKinds == {[code |-> c, slack |-> sl] : c \in {0, 1, 2, 7}, sl \in {-1, 0, 1, 3}}

ChannelStored(c, w, h) ==
    IF c.code = RAW THEN U16(c.code) \o Fill(Max(0, w * h))
    ELSE IF c.code = PACK_BITS
    THEN U16(c.code) \o Concat([k \in 1..h |-> U16(k)]) \o Fill(Sum([k \in 1..h |-> k]))
    ELSE U16(c.code)

ChannelDeclared(c, w, h) == Max(0, Len(ChannelStored(c, w, h)) + c.slack)

ChannelBytes(c, w, h) == ChannelStored(c, w, h) \o Fill(Max(0, c.slack))

ChannelsBytes(chans, w, h) ==
    Concat([k \in 1..Len(chans) |-> ChannelBytes(chans[k], w, h)])

ChannelInfos(chans, w, h) ==
    [k \in 1..Len(chans) |-> [id |-> k - 2, length |-> ChannelDeclared(chans[k], w, h)]]

ChannelVectors ==
    {[entry |-> "chan", start |-> 0, w |-> box[1], h |-> box[2], chans |-> cs] :
        box \in {<<0, 0>>, <<2, 1>>, <<-1, 1>>}, cs \in SeqsUpTo(ChannelKinds, MaxChannels)}

\* a layer record: the fields that steer the reader
DefaultRecord ==
    [w |-> 2, h |-> 1, chans |-> <<>>, magic |-> SIG_8BIM, blend |-> BLEND_norm,
     clipping |-> 0, mask |-> 0, blen |-> 0, namelen |-> 0, blocks |-> <<>>,
     slack |-> 0]

RecordExtra(r) ==
    MaskBytes(r.mask) \o U32(r.blen) \o Fill(8 * BlendingRangesCount(r.blen))
        \o U8(r.namelen) \o Fill(r.namelen) \o StreamBytes(r.blocks)

RecordExtraLength(r) == Max(0, Len(RecordExtra(r)) + r.slack)

RecordHead(r) ==
    I32(0) \o I32(0) \o I32(r.h) \o I32(r.w) \o U16(Len(r.chans))
        \o Concat([k \in 1..Len(r.chans) |->
                      I16(k - 2) \o U32(ChannelDeclared(r.chans[k], r.w, r.h))])
        \o r.magic

RecordBytes(r) ==
    IF Len(r.magic) < 4 THEN RecordHead(r)
    ELSE RecordHead(r) \o r.blend \o <<200, r.clipping, 8, 0>> \o U32(RecordExtraLength(r))
            \o RecordExtra(r) \o Fill(Max(0, r.slack))

RecordKinds ==
    {[DefaultRecord EXCEPT !.chans = cs, !.blend = bl, !.clipping = cl, !.mask = mz,
                           !.blen = bn, !.namelen = nl, !.blocks = bs, !.slack = sl] :
        cs \in {<<>>, <<[code |-> 0, slack |-> 0]>>}, bl \in {BLEND_norm, BLEND_zzzz},
        cl \in {0, 9}, mz \in {0, 5, 20}, bn \in {0, 8, 16}, nl \in {0, 2},
        bs \in SeqsUpTo({[sig |-> SIG_8BIM, key |-> KEY_lyid, length |-> 4]}, 1),
        sl \in {-1000, -1, 0, 2}}
    \cup {[DefaultRecord EXCEPT !.magic = mg, !.chans = cs] :
            mg \in {SIG_MIB8, SIG_8B64, <<56, 66>>},
            cs \in {<<>>, <<[code |-> 0, slack |-> 0]>>}}
    \cup {[DefaultRecord EXCEPT !.blend = bl] : bl \in {BLEND_high, <<110, 111>>}}

RecordVectors ==
    {[entry |-> "rec", start |-> st, rec |-> r] : st \in {0, 6}, r \in RecordKinds}

\* a whole section
SectionRecordKinds ==
    {DefaultRecord,
     [DefaultRecord EXCEPT !.chans = <<[code |-> 0, slack |-> 0], [code |-> 2, slack |-> 3]>>,
                           !.blocks = <<[sig |-> SIG_8BIM, key |-> KEY_lyid, length |-> 4]>>,
                           !.slack = 0],
     [DefaultRecord EXCEPT !.magic = SIG_MIB8],
     [DefaultRecord EXCEPT !.mask = 5, !.blend = BLEND_zzzz, !.slack = -1000,
                           !.chans = <<[code |-> 1, slack |-> 0]>>]}

SectionBody(v) ==
    I16(v.count)
        \o Concat([k \in 1..Len(v.recs) |-> RecordBytes(v.recs[k])])
        \o Concat([k \in 1..Len(v.recs) |->
                      ChannelsBytes(v.recs[k].chans, v.recs[k].w, v.recs[k].h)])

SectionContent(v) ==
    U32(Len(SectionBody(v))) \o SectionBody(v) \o GlobalMaskBytes(v.gmlen)
        \o StreamBytes(v.blocks)

SectionLength(v) == Max(0, Len(SectionContent(v)) + v.slack)

SectionBytes(v) ==
    U32(SectionLength(v)) \o SectionContent(v) \o Fill(Max(0, v.slack)) \o v.tail

SectionVectors ==
    {[entry |-> "read", start |-> 0, count |-> sg * Len(rs), recs |-> rs, gmlen |-> gl,
      blocks |-> bs, slack |-> sl, tail |-> tl] :
        sg \in {-1, 1}, rs \in SeqsUpTo(SectionRecordKinds, MaxLayers),
        gl \in {0, 20},
        bs \in SeqsUpTo({[sig |-> SIG_8B64, key |-> KEY_luni, length |-> 1]}, 1),
        sl \in {-1000, -5, 0, 3}, tl \in {<<>>, <<0, 0, 0, 0, 0>>}}

TestVectors ==
    ScanVectors \cup MaskVectors \cup GlobalMaskVectors \cup ChannelVectors
        \cup RecordVectors \cup SectionVectors

Truncate(bytes, cut) == SubSeq(bytes, 1, Len(bytes) - cut)

VectorBytes(v) ==
    CASE v.entry = "scan" -> StreamBytes(v.blocks) \o v.tail
      [] v.entry = "mask" -> Truncate(MaskBytes(v.size), v.cut)
      [] v.entry = "gmi" -> Truncate(GlobalMaskBytes(v.length), v.cut)
      [] v.entry = "chan" -> ChannelsBytes(v.chans, v.w, v.h)
      [] v.entry = "rec" -> RecordBytes(v.rec)
      [] v.entry = "read" -> SectionBytes(v)

\* the layer a test of _read_channel_image_data is called with
VectorLayer(v) ==
    IF v.entry = "chan"
    THEN [top |-> 0, left |-> 0, bottom |-> v.h, right |-> v.w,
          channels |-> ChannelInfos(v.chans, v.w, v.h)]
    ELSE [top |-> 0, left |-> 0, bottom |-> 0, right |-> 0, channels |-> <<>>]

(***************************************************************************)
(* The state before the entered function's first statement: the cursor     *)
(* after v.start bytes of other data.                                      *)
(***************************************************************************)
Init ==
    \E v \in TestVectors :
        /\ input = v
        /\ buf = Fill(v.start) \o VectorBytes(v)
        /\ pos = v.start
        /\ pc = v.entry
        /\ stack = <<>>
        /\ err = NoError
        /\ warns = <<>>
        /\ ret = None
        /\ rd = ReadLocals
        /\ ls = LayersLocals
        /\ lr = RecordLocals
        /\ tb = IF v.entry = "scan" THEN ScanLocals(v.budget, v.start) ELSE ScanLocals(0, 0)
        /\ cd = ChannelLocals(VectorLayer(v))
        /\ mk = MaskLocals
        /\ gm = GlobalMaskLocals

Next ==
    \/ read_begin
    \/ read_call_global_mask_info
    \/ read_call_tagged_blocks
    \/ read_skip
    \/ read_layers_begin
    \/ read_layers_next_record
    \/ read_layers_append_record
    \/ read_layers_records_done
    \/ read_layers_next_channel_data
    \/ read_layers_append_channel_data
    \/ read_layers_return
    \/ read_layer_record_header
    \/ read_layer_record_signature
    \/ read_layer_record_blend_mode
    \/ read_layer_record_flags
    \/ read_layer_record_blending_ranges
    \/ read_layer_record_name
    \/ read_layer_record_skip
    \/ read_additional_layer_info_block_peek
    \/ read_layer_tagged_blocks_return
    \/ read_additional_layer_info_block_unpeek
    \/ read_additional_layer_info_block_unpeek_fails
    \/ read_additional_layer_info_block
    \/ read_layer_mask_data
    \/ read_channel_image_data_begin
    \/ read_channel
    \/ read_channel_image_data_return
    \/ read_global_mask_info

Spec == Init /\ [][Next]_vars

(***************************************************************************)
(* The claims.                                                             *)
(***************************************************************************)
Returned(entry) == input.entry = entry /\ pc = "done"

\* C1: when read() returns, the cursor is at origin + L, where origin is the
\* position right after the 4-byte length field and L the declared length,
\* whether the content consumed fewer or more than L bytes.
C1_ReadEndsAtDeclaredEnd ==
    Returned("read") =>
        /\ rd.start_position = input.start + 4
        /\ rd.length = SectionLength(input)
        /\ pos = rd.start_position + rd.length

\* read() has returned from a section whose content consumed more than L > 0
C1_Witness ==
    /\ Returned("read")
    /\ rd.length > 0
    /\ rd.consumed_bytes > rd.length
    /\ pos = rd.start_position + rd.length

\* C2, as stated: only the un-peek of the scanner decreases the cursor, and the
\* final seeks of a layer record and of the section are clamped to the current
\* position.
C2_OnlyUnpeekMovesBack ==
    [][/\ pos' < pos => pc = "scan_sig"
       /\ pc = "rec_skip" => pos' = Max(pos, lr.start + lr.extra_length)
       /\ pc = "read_skip" => pos' = Max(pos, rd.start_position + rd.length)]_vars

\* C2, amended: the steps that decrease the cursor are the un-peek of the
\* scanner (by 4 bytes, not past the start of the source) and the final seeks
\* of a layer record and of the section; a final seek is not clamped and puts
\* the cursor at origin + declared length in every case.
C2_BackwardSteps ==
    [][/\ pos' < pos => pc \in {"scan_sig", "rec_skip", "read_skip"}
       /\ (pc = "scan_sig" /\ pos' < pos) => pos' = Max(0, pos - 4)
       /\ pc = "rec_skip" => pos' = lr.start + lr.extra_length
       /\ pc = "read_skip" => pos' = rd.start_position + rd.length]_vars

\* a layer record has returned whose mask, blending ranges, name and tagged
\* blocks consumed more than extraLength: its final seek went backwards
C2_Witness ==
    /\ pc \in {"done", "layers_rec_ret"}
    /\ input.entry \in {"rec", "read"}
    /\ lr.sig = Some(SIG_8BIM)
    /\ Len(lr.tagged_blocks) > 0
    /\ lr.remaining_length < 0
    /\ pos = lr.start + lr.extra_length

\* C3: a channel whose tag and payload took at most its declared length D
\* leaves the cursor at channelStart + D.
C3_ChannelEndsAtDeclaredEnd ==
    (/\ pc = "chan_loop"
     /\ cd.i > 0
     /\ cd.layer.channels[cd.i].length - cd.remaining_bytes - 2
            <= cd.layer.channels[cd.i].length)
        => pos = cd.start_pos + cd.layer.channels[cd.i].length

\* C4: the mask decoder succeeds for every size and advances by 4 + size; sizes
\* 20 and 36 give a mask record (the real* fields set for 36 only), the other
\* sizes a null mask.
C4_MaskDecodes ==
    (/\ input.entry = "mask"
     /\ input.cut = 0
     /\ pc \in {"done", "raised"})
        => /\ pc = "done"
           /\ pos = input.start + 4 + input.size
           /\ input.size \notin {20, 36} => ret = None
           /\ input.size \in {20, 36} =>
                /\ ret /= None
                /\ (ret[1].real_flags = None) = (input.size = 20)
                /\ (ret[1].real_background = None) = (input.size = 20)

\* C5: when the scanner stops because the peek found no signature (a short
\* peek included), the cursor is where that peek started; with no block read
\* before, the list is empty and the cursor is where the call found it.
C5_UnpeekRestoresCursor ==
    (/\ tb.sig /= None
     /\ tb.sig[1] \notin BlockSignatures
     /\ \/ pc \in {"rec_skip", "read_skip"}
        \/ Returned("scan"))
        => /\ pos = tb.start_pos + tb.read_bytes
           /\ tb.read_bytes = 0 => (ret = <<>> /\ pos = tb.start_pos)

\* the size of the first n blocks of a stream, with h header bytes per block
StreamSize(blocks, n, h) == Sum([i \in 1..n |-> h + blocks[i].length])

\* the budget is used up by the last of the blocks and by none before it
BudgetCovers(v, h) ==
    IF v.blocks = <<>> THEN v.budget <= 0
    ELSE /\ StreamSize(v.blocks, Len(v.blocks) - 1, h) < v.budget
         /\ v.budget <= StreamSize(v.blocks, Len(v.blocks), h)

StreamEntries(blocks) ==
    [i \in 1..Len(blocks) |-> [key |-> blocks[i].key, data |-> Fill(blocks[i].length)]]

\* C6, as stated: on well-formed blocks and a budget that covers them the
\* scanner yields one entry per block in order and consumes the sum of
\* (8 + declared length).
C6_ScannerConsumes8PerBlock ==
    (Returned("scan") /\ BudgetCovers(input, 12))
        => /\ ret = StreamEntries(input.blocks)
           /\ pos - input.start = StreamSize(input.blocks, Len(input.blocks), 8)

\* C6, amended: on well-formed blocks and a budget that their last block uses
\* up, the scanner yields one entry per block in order and consumes the sum
\* of (12 + declared length): signature, key and length field are 4 bytes each.
C6_ScannerConsumes12PerBlock ==
    (Returned("scan") /\ BudgetCovers(input, 12))
        => /\ ret = StreamEntries(input.blocks)
           /\ pos - input.start = StreamSize(input.blocks, Len(input.blocks), 12)

\* two 8BIM blocks, lyid of length 4 and luni of length 10, budget 38:
\* two entries in that order, 38 bytes consumed
C6_Witness ==
    /\ Returned("scan")
    /\ input.blocks = <<[sig |-> SIG_8BIM, key |-> KEY_lyid, length |-> 4],
                        [sig |-> SIG_8BIM, key |-> KEY_luni, length |-> 10]>>
    /\ input.budget = 38
    /\ Len(ret) = 2
    /\ ret[1].key = KEY_lyid /\ Len(ret[1].data) = 4
    /\ ret[2].key = KEY_luni /\ Len(ret[2].data) = 10
    /\ pos - input.start = 38

\* the parse has stopped on a layer record's magic: nothing was returned and
\* nothing more is decoded
AbortedAtMagic ==
    /\ pc = "raised"
    /\ err.kind = "Error"
    /\ ~ENABLED Next
    /\ rd.layers = None
    /\ rd.global_mask_info = None
    /\ ls.channel_image_data = <<>>
    /\ Len(ls.layer_records) < Max(1, Abs(ls.layer_count))

\* C7, as stated: a magic that is not 8BIM aborts the parse with the parse
\* error, which carries the byte offset at which the magic was read.
C7_BadMagicCarriesOffset ==
    (lr.sig /= None /\ lr.sig[1] /= SIG_8BIM)
        => /\ AbortedAtMagic
           /\ "offset" \in DOMAIN err
           /\ err.offset = pos - Len(lr.sig[1])

\* C7, amended: a magic that is not 8BIM aborts the parse with the parse
\* error and no other; nothing is returned and nothing more is decoded; the
\* error carries the bytes read as the magic, not their offset.
C7_BadMagicAborts ==
    (lr.sig /= None /\ lr.sig[1] /= SIG_8BIM)
        => /\ AbortedAtMagic
           /\ DOMAIN err = {"kind", "arg"}
           /\ err.arg = lr.sig[1]

\* read() has met the magic MIB8 in the second of two layer records
C7_Witness ==
    /\ input.entry = "read"
    /\ Abs(ls.layer_count) = 2
    /\ Len(ls.layer_records) = 1
    /\ pc = "raised"
    /\ err = [kind |-> "Error", arg |-> SIG_MIB8]
    /\ lr.sig = Some(SIG_MIB8)

\* C8: any 4 bytes in place of the blend mode key are kept as the blend mode,
\* with a warning when they are no known key, and the record is decoded on.
C8_AnyBlendKeyKept ==
    (/\ input.entry = "rec"
     /\ input.rec.magic = SIG_8BIM
     /\ Len(input.rec.blend) = 4
     /\ pc \notin {"rec", "rec_sig", "rec_blend"})
        => /\ ~(pc = "raised" /\ err.kind = "UnicodeDecodeError")
           /\ lr.blend_mode = Some(input.rec.blend)
           /\ input.rec.blend \notin BlendModeKnown =>
                \E i \in 1..Len(warns) : warns[i].msg = "Unknown blend mode"

\* C9: the global mask info decoder leaves the cursor at
\* (position after the length field) + max(length, 13).
C9_GlobalMaskEndsAtDeclaredEnd ==
    (pc = "read_tagged" \/ Returned("gmi"))
        => pos = (gm.start_pos + 4) + Max(gm.length, 13)

\* C10: the channel decoder returns one entry per channel of the layer, and
\* the section one list of entries per layer record.
C10_OneEntryPerChannel ==
    /\ (pc = "layers_chan_ret" \/ Returned("chan")) => Len(ret) = Len(cd.layer.channels)
    /\ Returned("read") =>
            Len(ret.layers.channel_image_data) = Len(ret.layers.layer_records)

====
